---- MODULE Spec2Model ----
(***************************************************************************)
(* sps30-exporter: a reader thread polls an SPS30 particulate sensor and   *)
(* caches the latest Measurement behind an RwLock; two warp handlers       *)
(* (/json, /metrics) read the cache; SIGTERM sets a flag the reader        *)
(* observes at the top of its loop.                                        *)
(*                                                                         *)
(* Threads of the model:                                                   *)
(*   - the reader thread (read_thread and the closure that runs it),       *)
(*   - the main task (awaits the join of the reader thread),               *)
(*   - the HTTP handlers (one per request in flight),                      *)
(*   - the environment: SIGTERM delivery and the passing of time.          *)
(* The sensor driver (sps30, rppal) is external: each of its calls is an   *)
(* input of the action that makes it.                                      *)
(***************************************************************************)
EXTENDS Integers, Sequences, FiniteSets, TLC

(***************************************************************************)
(* Bounds of the model.                                                    *)
(***************************************************************************)
\* distinct ten-value series the sensor may return (samples 1..MaxSample)
MaxSample == 2
\* the error counter is capped here through the guards of the counting steps
MaxErrors == 3
\* HTTP requests that may be in flight at once
NumHandlers == 2
\* granularity of the clock, in milliseconds
TickMs == 1000

(***************************************************************************)
(* Program constants.                                                      *)
(***************************************************************************)
READ_INTERVAL == 2000
\* length of the series read_measurement returns: [f32; 10]
SeriesLen == 10

Samples == 1..MaxSample
Handlers == 1..NumHandlers

(***************************************************************************)
(* Sensor data.  read_measurement returns [f32; 10]; sample s is modelled  *)
(* as the series whose i-th element (0-based, as in the source) is         *)
(* SeriesLen*s + i, so every element names both its poll and its         *)
(* position.                                                               *)
(***************************************************************************)
SensorData(s) == [i \in 0..(SeriesLen - 1) |-> SeriesLen * s + i]

SampleOf(x) == x \div SeriesLen

\* Measurement::from_array with the index of number.pm05 off by one
from_array_shifted(arr) ==
  [ mass   |-> [pm1 |-> arr[0], pm25 |-> arr[1], pm4 |-> arr[2], pm10 |-> arr[3]],
    number |-> [pm05 |-> arr[3], pm1 |-> arr[5], pm25 |-> arr[6],
                pm4 |-> arr[7], pm10 |-> arr[8]],
    typical_particle_size |-> arr[9] ]

from_array(arr) ==
  [ mass   |-> [pm1 |-> arr[0], pm25 |-> arr[1], pm4 |-> arr[2], pm10 |-> arr[3]],
    number |-> [pm05 |-> arr[4], pm1 |-> arr[5], pm25 |-> arr[6],
                pm4 |-> arr[7], pm10 |-> arr[8]],
    typical_particle_size |-> arr[9] ]

\* payload of a None: never read by the program
NoMeasurement ==
  [ mass   |-> [pm1 |-> 0, pm25 |-> 0, pm4 |-> 0, pm10 |-> 0],
    number |-> [pm05 |-> 0, pm1 |-> 0, pm25 |-> 0, pm4 |-> 0, pm10 |-> 0],
    typical_particle_size |-> 0 ]

\* Option<Measurement>
None == [some |-> FALSE, value |-> NoMeasurement]
Some(v) == [some |-> TRUE, value |-> v]

VARIABLES
  readerPc,          \* position of the reader thread
  term,              \* the AtomicBool SIGTERM sets
  latest_reading,    \* content of the RwLock: Option<Measurement>
  error_count,       \* AtomicUsize
  fatal_error_count, \* AtomicUsize
  data,              \* read_thread's local data, live in the Ok arm only
  writeLocked,       \* the reader thread holds the write guard
  readLocks,         \* number of read guards held
  elapsed,           \* last_read.elapsed(), saturating at ElapsedCap
  hpc,               \* per handler: "idle" or "holding" (its read guard)
  hkind,             \* per handler: "json" or "metrics"
  hcopy,             \* per handler: the Option<Measurement> r_metrics copied
  response,          \* the last response a handler returned
  exited,            \* the process has exited
  exitCode,          \* its status, once exited
  \* history variables (not program state)
  startupFailed,     \* a startup step of read_thread returned Err
  recoverableCount,  \* polls that ended in a read error other than EmptyResult
  lockFailCount,     \* polls whose reading_lock.write() returned Err
  lastData,          \* series of the last poll whose store completed
  readsAfterTerm,    \* read attempts started while term was set (2: two or more)
  stopAttempts,      \* calls of stop_measurement
  stopResult,        \* "none", or the result of the last of them
  nonNullJson,       \* some /json response carried a Measurement
  startupLog,        \* the startup steps read_thread has issued, in order
  everRead,          \* read_measurement has been called
  outcome            \* how the poll of this iteration ended ("none": not yet)

vars == << readerPc, term, latest_reading, error_count, fatal_error_count, data,
           writeLocked, readLocks, elapsed, hpc, hkind, hcopy, response,
           exited, exitCode, startupFailed, recoverableCount, lockFailCount,
           lastData, readsAfterTerm, stopAttempts, stopResult, nonNullJson,
           startupLog, everRead, outcome >>

sharedVars  == << latest_reading, error_count, fatal_error_count >>
lockVars    == << writeLocked, readLocks >>
handlerVars == << hpc, hkind, hcopy, response, nonNullJson >>
exitVars    == << exited, exitCode >>
pollHistory == << recoverableCount, lockFailCount, lastData >>
stopHistory == << stopAttempts, stopResult >>
iterHistory == << startupLog, everRead, outcome >>

NoData == [i \in 0..(SeriesLen - 1) |-> 0]
NoResponse == [kind |-> "none"]

Init ==
  /\ readerPc = "open"
  /\ term = FALSE
  /\ latest_reading = None
  /\ error_count = 0
  /\ fatal_error_count = 0
  /\ data = NoData
  /\ writeLocked = FALSE
  /\ readLocks = 0
  /\ elapsed = 0
  /\ hpc = [h \in Handlers |-> "idle"]
  /\ hkind = [h \in Handlers |-> "json"]
  /\ hcopy = [h \in Handlers |-> None]
  /\ response = NoResponse
  /\ exited = FALSE
  /\ exitCode = 0
  /\ startupFailed = FALSE
  /\ recoverableCount = 0
  /\ lockFailCount = 0
  /\ lastData = NoData
  /\ readsAfterTerm = 0
  /\ stopAttempts = 0
  /\ stopResult = "none"
  /\ nonNullJson = FALSE
  /\ startupLog = << >>
  /\ everRead = FALSE
  /\ outcome = "none"

(***************************************************************************)
(* Helpers of the reader thread.                                           *)
(***************************************************************************)
\* a startup step whose Err is not propagated
Try_ignoring(ok, next) == next

\* the `?` operator: go on at next on Ok, return the Err from read_thread
Try(ok, next) == IF ok THEN next ELSE "failed"

\* fetch_add on a counter one bit wide: it wraps to 0
fetch_add_narrow(c) == (c + 1) % 2

\* AtomicUsize::fetch_add(1): the new value.  usize wraps at 2^32 or 2^64;
\* the counters of the model stay below MaxErrors + 1.
fetch_add(c) == c + 1

\* the clock saturates one tick above the interval, so that "more than the
\* interval has elapsed" is a value of its own
ElapsedCap == READ_INTERVAL + TickMs

Min(a, b) == IF a <= b THEN a ELSE b

\* Duration::checked_sub: << a - b >> for Some(a - b), << >> for None
checked_sub(a, b) == IF b <= a THEN << a - b >> ELSE << >>

\* the subtraction with its operands exchanged
sleep_duration_swapped(e) == checked_sub(e, READ_INTERVAL)

\* READ_INTERVAL.checked_sub(last_read.elapsed())
sleep_duration(e) == checked_sub(READ_INTERVAL, e)

\* the clock after thread::sleep(d) (sleep returns no earlier than asked)
AfterSleep(e, d) == Min(e + d, ElapsedCap)

Alive == ~exited

(***************************************************************************)
(* read_thread: startup.                                                   *)
(***************************************************************************)
StartupStep(from, to) ==
  /\ Alive
  /\ readerPc = from
  /\ \E ok \in BOOLEAN :
       /\ readerPc' = Try(ok, to)
       /\ startupFailed' = (startupFailed \/ ~ok)
  /\ startupLog' = Append(startupLog, from)
  /\ UNCHANGED << term, sharedVars, data, lockVars, elapsed, handlerVars,
                  exitVars, pollHistory, readsAfterTerm, stopHistory,
                  everRead, outcome >>

\* Uart::with_path and the five set_* calls, each followed by `?`
OpenSerial == StartupStep("open", "reset")

\* sps30.reset().map_err(map_sps30_error)?
Reset == StartupStep("reset", "settle")

\* thread::sleep(STARTUP_DURATION): the 8 s the sensor takes to initialise
Settle ==
  /\ Alive
  /\ readerPc = "settle"
  /\ readerPc' = "start"
  /\ startupLog' = Append(startupLog, "settle")
  /\ UNCHANGED << term, sharedVars, data, lockVars, elapsed, handlerVars,
                  exitVars, startupFailed, pollHistory, readsAfterTerm,
                  stopHistory,
                  everRead, outcome >>

\* sps30.start_measurement().map_err(map_sps30_error)?, then
\* let mut last_read = Instant::now()
StartMeasurement ==
  /\ Alive
  /\ readerPc = "start"
  /\ \E ok \in BOOLEAN :
       /\ readerPc' = Try(ok, "check")
       /\ startupFailed' = (startupFailed \/ ~ok)
  /\ elapsed' = 0
  /\ startupLog' = Append(startupLog, "start")
  /\ UNCHANGED << term, sharedVars, data, lockVars, handlerVars, exitVars,
                  pollHistory, readsAfterTerm, stopHistory,
                  everRead, outcome >>

(***************************************************************************)
(* read_thread: the poll loop.                                             *)
(***************************************************************************)
\* the loop without its termination check
CheckTerm_ignoring_term ==
  /\ Alive
  /\ readerPc = "check"
  /\ readerPc' = "wait"
  /\ outcome' = "none"
  /\ UNCHANGED << term, sharedVars, data, lockVars, elapsed, handlerVars,
                  exitVars, startupFailed, pollHistory, readsAfterTerm,
                  stopHistory, startupLog, everRead >>

\* a loop that polls once before it looks at the flag
CheckTerm_skipping_first ==
  /\ Alive
  /\ readerPc = "check"
  /\ readerPc' = IF term /\ everRead THEN "stop" ELSE "wait"
  /\ outcome' = "none"
  /\ UNCHANGED << term, sharedVars, data, lockVars, elapsed, handlerVars,
                  exitVars, startupFailed, pollHistory, readsAfterTerm,
                  stopHistory, startupLog, everRead >>

\* if term.load(Ordering::Relaxed) { break; }
CheckTerm ==
  /\ Alive
  /\ readerPc = "check"
  /\ readerPc' = IF term THEN "stop" ELSE "wait"
  /\ outcome' = "none"
  /\ UNCHANGED << term, sharedVars, data, lockVars, elapsed, handlerVars,
                  exitVars, startupFailed, pollHistory, readsAfterTerm,
                  stopHistory, startupLog, everRead >>

\* if let Some(sleep_duration) = READ_INTERVAL.checked_sub(last_read.elapsed())
\*   { thread::sleep(sleep_duration); }
Wait ==
  /\ Alive
  /\ readerPc = "wait"
  /\ LET d == sleep_duration(elapsed)
     IN  elapsed' = IF d # << >> THEN AfterSleep(elapsed, d[1]) ELSE elapsed
  /\ readerPc' = "read"
  /\ UNCHANGED << term, sharedVars, data, lockVars, handlerVars, exitVars,
                  startupFailed, pollHistory, readsAfterTerm, stopHistory,
                  iterHistory >>

\* last_read = Instant::now(), and the call of sps30.read_measurement()
BeginRead ==
  /\ elapsed' = 0
  /\ everRead' = TRUE
  /\ readsAfterTerm' = IF term /\ readsAfterTerm < 2
                          THEN readsAfterTerm + 1
                          ELSE readsAfterTerm

\* read_measurement() returned Ok(data): let m = Measurement::from_array(data)
ReadOk ==
  /\ Alive
  /\ readerPc = "read"
  /\ BeginRead
  /\ \E s \in Samples : data' = SensorData(s)
  /\ readerPc' = "lock"
  /\ outcome' = "Ok"
  /\ UNCHANGED << term, sharedVars, lockVars, handlerVars, exitVars,
                  startupFailed, pollHistory, stopHistory, startupLog >>

\* the EmptyResult arm counted as an error
ReadEmpty_counting ==
  /\ Alive
  /\ readerPc = "read"
  /\ error_count < MaxErrors
  /\ BeginRead
  /\ error_count' = fetch_add(error_count)
  /\ readerPc' = "check"
  /\ outcome' = "EmptyResult"
  /\ UNCHANGED << term, latest_reading, fatal_error_count, data, lockVars,
                  handlerVars, exitVars, startupFailed, pollHistory,
                  stopHistory, startupLog >>

\* an EmptyResult arm that clears the stored reading
ReadEmpty_clearing ==
  /\ Alive
  /\ readerPc = "read"
  /\ BeginRead
  /\ latest_reading' = None
  /\ readerPc' = "check"
  /\ outcome' = "EmptyResult"
  /\ UNCHANGED << term, error_count, fatal_error_count, data, lockVars,
                  handlerVars, exitVars, startupFailed, pollHistory,
                  stopHistory, startupLog >>

\* read_measurement() returned Err(sps30::Error::EmptyResult)
ReadEmpty ==
  /\ Alive
  /\ readerPc = "read"
  /\ BeginRead
  /\ readerPc' = "check"
  /\ outcome' = "EmptyResult"
  /\ UNCHANGED << term, sharedVars, data, lockVars, handlerVars, exitVars,
                  startupFailed, pollHistory, stopHistory, startupLog >>

\* a read error propagated with `?` out of read_thread
ReadError_propagating ==
  /\ Alive
  /\ readerPc = "read"
  /\ BeginRead
  /\ readerPc' = "failed"
  /\ outcome' = "Error"
  /\ UNCHANGED << term, sharedVars, data, lockVars, handlerVars, exitVars,
                  startupFailed, pollHistory, stopHistory, startupLog >>

\* a read error counted in fatal_error_count
ReadError_fatal ==
  /\ Alive
  /\ readerPc = "read"
  /\ fatal_error_count < MaxErrors
  /\ BeginRead
  /\ fatal_error_count' = fetch_add(fatal_error_count)
  /\ recoverableCount' = recoverableCount + 1
  /\ readerPc' = "check"
  /\ outcome' = "Error"
  /\ UNCHANGED << term, latest_reading, error_count, data, lockVars,
                  handlerVars, exitVars, startupFailed, lockFailCount,
                  lastData, stopHistory, startupLog >>

\* read_measurement() returned any other Err(e)
ReadError ==
  /\ Alive
  /\ readerPc = "read"
  /\ error_count < MaxErrors
  /\ BeginRead
  /\ error_count' = fetch_add(error_count)
  /\ recoverableCount' = recoverableCount + 1
  /\ readerPc' = "check"
  /\ outcome' = "Error"
  /\ UNCHANGED << term, latest_reading, fatal_error_count, data, lockVars,
                  handlerVars, exitVars, startupFailed, lockFailCount, lastData,
                  stopHistory, startupLog >>

\* the driver panics inside read_measurement(): the thread unwinds out of
\* read_thread and out of the closure that called it
ReadPanics ==
  /\ Alive
  /\ readerPc = "read"
  /\ BeginRead
  /\ readerPc' = "panicked"
  /\ outcome' = "Panic"
  /\ UNCHANGED << term, sharedVars, data, lockVars, handlerVars, exitVars,
                  startupFailed, pollHistory, stopHistory, startupLog >>

(***************************************************************************)
(* The RwLock: any number of read guards, or one write guard.              *)
(***************************************************************************)
\* a write() that does not wait for the read guards
CanWrite_ignoring_readers == ~writeLocked

CanWrite == ~writeLocked /\ readLocks = 0

CanRead == ~writeLocked

\* a failed write() that is tried again at once instead of `continue`
WriteLockErr_retrying ==
  /\ Alive
  /\ readerPc = "lock"
  /\ error_count < MaxErrors
  /\ error_count' = fetch_add(error_count)
  /\ lockFailCount' = lockFailCount + 1
  /\ readerPc' = "lock"
  /\ outcome' = "LockErr"
  /\ UNCHANGED << term, latest_reading, fatal_error_count, data, lockVars,
                  elapsed, handlerVars, exitVars, startupFailed,
                  recoverableCount, lastData, readsAfterTerm, stopHistory,
                  startupLog, everRead >>

\* reading_lock.write() returned Err: warn!, error_count.fetch_add(1), continue
\* (data and m go out of scope)
WriteLockErr ==
  /\ Alive
  /\ readerPc = "lock"
  /\ error_count < MaxErrors
  /\ error_count' = fetch_add(error_count)
  /\ lockFailCount' = lockFailCount + 1
  /\ data' = NoData
  /\ readerPc' = "check"
  /\ outcome' = "LockErr"
  /\ UNCHANGED << term, latest_reading, fatal_error_count, lockVars,
                  elapsed, handlerVars, exitVars, startupFailed,
                  recoverableCount, lastData, readsAfterTerm, stopHistory,
                  startupLog, everRead >>

\* reading_lock.write() returned Ok(lock)
WriteLockOk ==
  /\ Alive
  /\ readerPc = "lock"
  /\ CanWrite
  /\ writeLocked' = TRUE
  /\ readerPc' = "store1"
  /\ UNCHANGED << term, sharedVars, data, readLocks, elapsed, handlerVars,
                  exitVars, startupFailed, pollHistory, readsAfterTerm,
                  stopHistory, iterHistory >>

\* *lock = Some(m) is a copy of the whole Option<Measurement>, which is not
\* one atomic store: it is modelled as two, the discriminant and mass first,
\* number and typical_particle_size second.
StoreFirst(old, new) ==
  [some |-> new.some,
   value |-> [old.value EXCEPT !.mass = new.value.mass]]

StoreSecond(old, new) ==
  [old EXCEPT !.value.number = new.value.number,
              !.value.typical_particle_size = new.value.typical_particle_size]

Store1 ==
  /\ Alive
  /\ readerPc = "store1"
  /\ latest_reading' = StoreFirst(latest_reading, Some(from_array(data)))
  /\ readerPc' = "store2"
  /\ UNCHANGED << term, error_count, fatal_error_count, data, lockVars,
                  elapsed, handlerVars, exitVars, startupFailed, pollHistory,
                  readsAfterTerm, stopHistory, iterHistory >>

\* a store whose write guard outlives the arm
Store2_keeping_guard ==
  /\ Alive
  /\ readerPc = "store2"
  /\ latest_reading' = StoreSecond(latest_reading, Some(from_array(data)))
  /\ lastData' = data
  /\ data' = NoData
  /\ readerPc' = "check"
  /\ UNCHANGED << term, error_count, fatal_error_count, lockVars,
                  elapsed, handlerVars, exitVars, startupFailed,
                  recoverableCount, lockFailCount, readsAfterTerm,
                  stopHistory, iterHistory >>

\* the rest of the store, and the drop of the write guard at the end of the arm
Store2 ==
  /\ Alive
  /\ readerPc = "store2"
  /\ latest_reading' = StoreSecond(latest_reading, Some(from_array(data)))
  /\ writeLocked' = FALSE
  /\ lastData' = data
  /\ data' = NoData
  /\ readerPc' = "check"
  /\ UNCHANGED << term, error_count, fatal_error_count, readLocks,
                  elapsed, handlerVars, exitVars, startupFailed,
                  recoverableCount, lockFailCount, readsAfterTerm,
                  stopHistory, iterHistory >>

(***************************************************************************)
(* read_thread: shutdown, and the ends of the thread.                      *)
(***************************************************************************)
\* a failed stop_measurement counted in error_count
StopMeasurement_counting ==
  /\ Alive
  /\ readerPc = "stop"
  /\ \E ok \in BOOLEAN :
       /\ stopResult' = IF ok THEN "Ok" ELSE "Err"
       /\ error_count' = IF ok THEN error_count ELSE fetch_add(error_count)
  /\ stopAttempts' = stopAttempts + 1
  /\ readerPc' = "exit"
  /\ UNCHANGED << term, latest_reading, fatal_error_count, data, lockVars,
                  elapsed, handlerVars, exitVars, startupFailed, pollHistory,
                  readsAfterTerm, iterHistory >>

\* if let Err(e) = sps30.stop_measurement() { error!(...) }
StopMeasurement ==
  /\ Alive
  /\ readerPc = "stop"
  /\ \E ok \in BOOLEAN : stopResult' = IF ok THEN "Ok" ELSE "Err"
  /\ stopAttempts' = stopAttempts + 1
  /\ readerPc' = "exit"
  /\ UNCHANGED << term, sharedVars, data, lockVars, elapsed, handlerVars,
                  exitVars, startupFailed, pollHistory, readsAfterTerm,
                  iterHistory >>

\* an exit status that reports the failed stop_measurement
ExitFromReader_status_of_stop ==
  /\ Alive
  /\ readerPc = "exit"
  /\ readerPc' = "done"
  /\ exited' = TRUE
  /\ exitCode' = IF stopResult = "Err" THEN 1 ELSE 0
  /\ UNCHANGED << term, sharedVars, data, lockVars, elapsed, handlerVars,
                  startupFailed, pollHistory, readsAfterTerm, stopHistory,
                  iterHistory >>

\* std::process::exit(0), called by the reader thread
ExitFromReader ==
  /\ Alive
  /\ readerPc = "exit"
  /\ readerPc' = "done"
  /\ exited' = TRUE
  /\ exitCode' = 0
  /\ UNCHANGED << term, sharedVars, data, lockVars, elapsed, handlerVars,
                  startupFailed, pollHistory, readsAfterTerm, stopHistory,
                  iterHistory >>

\* the closure of thread::spawn, read_thread having returned Err(e):
\* error!(...), thread_fatal_error_count.fetch_add(1); the closure then
\* returns normally
ClosureOnErr ==
  /\ Alive
  /\ readerPc = "failed"
  /\ fatal_error_count' = fetch_add(fatal_error_count)
  /\ readerPc' = "returned"
  /\ UNCHANGED << term, latest_reading, error_count, data, lockVars, elapsed,
                  handlerVars, exitVars, startupFailed, pollHistory,
                  readsAfterTerm, stopHistory, iterHistory >>

(***************************************************************************)
(* main: the join of the reader thread and the exit code.                  *)
(***************************************************************************)
\* thread_handle.join(): Err(payload) if the thread panicked, Ok(()) if its
\* closure returned
join(pc) == IF pc = "panicked" THEN "Err" ELSE "Ok"

\* thread_handle_task.await: the spawn_blocking closure only calls join(),
\* which returns its Result without panicking, so the task's JoinHandle
\* yields Ok(<the result of join()>)
thread_handle_task(pc) == [tag |-> "Ok", value |-> join(pc)]

\* match thread_handle_task.await { Ok(_) => exit(0), Err(e) => exit(1) }
exit_code(res) == IF res.tag = "Ok" THEN 0 ELSE 1

ThreadFinished == readerPc \in {"returned", "panicked"}

MainAwait ==
  /\ Alive
  /\ ThreadFinished
  /\ exited' = TRUE
  /\ exitCode' = exit_code(thread_handle_task(readerPc))
  /\ UNCHANGED << readerPc, term, sharedVars, data, lockVars, elapsed,
                  handlerVars, startupFailed, pollHistory, readsAfterTerm,
                  stopHistory, iterHistory >>

(***************************************************************************)
(* The HTTP handlers.                                                      *)
(***************************************************************************)
Member(g, k, v) == [group |-> g, key |-> k, value |-> v]

\* #[derive(Serialize)] on Measurement, MassConcentration and
\* NumberConcentration: the members of the JSON object, in field order
serialize(r) ==
  << Member("mass", "pm1", r.mass.pm1),
     Member("mass", "pm25", r.mass.pm25),
     Member("mass", "pm4", r.mass.pm4),
     Member("mass", "pm10", r.mass.pm10),
     Member("number", "pm05", r.number.pm05),
     Member("number", "pm1", r.number.pm1),
     Member("number", "pm25", r.number.pm25),
     Member("number", "pm4", r.number.pm4),
     Member("number", "pm10", r.number.pm10),
     Member("", "typical_particle_size", r.typical_particle_size) >>

\* the match of r_json: warp::reply::json(r) or warp::reply::json(&json!(null))
reply_json(reading) ==
  IF reading.some
    THEN [kind |-> "json", null |-> FALSE, members |-> serialize(reading.value)]
    ELSE [kind |-> "json", null |-> TRUE, members |-> << >>]

MASS_UNIT == "ug/m3"
NUMBER_UNIT == "1/cm3"
PARTICLE_SIZE_UNIT == "um"

\* one export!(s, name, value, variant = .., unit = ..) line
Line(n, val, var, u) == [name |-> n, value |-> val, variant |-> var, unit |-> u]

MeasurementLines(r) ==
  << Line("sps30_mass_concentration", r.mass.pm1, "PM1.0", MASS_UNIT),
     Line("sps30_mass_concentration", r.mass.pm25, "PM2.5", MASS_UNIT),
     Line("sps30_mass_concentration", r.mass.pm4, "PM4", MASS_UNIT),
     Line("sps30_mass_concentration", r.mass.pm10, "PM10", MASS_UNIT),
     Line("sps30_number_concentration", r.number.pm05, "PM0.5", NUMBER_UNIT),
     Line("sps30_number_concentration", r.number.pm1, "PM1.0", NUMBER_UNIT),
     Line("sps30_number_concentration", r.number.pm25, "PM2.5", NUMBER_UNIT),
     Line("sps30_number_concentration", r.number.pm4, "PM4", NUMBER_UNIT),
     Line("sps30_number_concentration", r.number.pm10, "PM10", NUMBER_UNIT),
     Line("sps30_typical_particle_size", r.typical_particle_size, "",
          PARTICLE_SIZE_UNIT) >>

CounterLines(ec, fc) ==
  << Line("sps30_error_count", ec, "", ""),
     Line("sps30_fatal_error_count", fc, "", "") >>

\* export_measurement that emits the counters only beside a measurement
export_measurement_counters_with_data(measurement, ec, fc) ==
  IF measurement.some
    THEN MeasurementLines(measurement.value) \o CounterLines(ec, fc)
    ELSE << >>

export_measurement(measurement, ec, fc) ==
  (IF measurement.some THEN MeasurementLines(measurement.value) ELSE << >>)
    \o CounterLines(ec, fc)

\* json_lock.read().unwrap() / metrics_lock.read().unwrap(): the handler gets
\* its read guard; r_metrics copies the Option<Measurement> out at once (the
\* argument *metrics_lock.read().unwrap()), r_json reads through the guard
\* when it serialises.  A read() that returned Err would panic the handler's
\* task: no response and no change of state, hence no step of the model.
Acquire(h) ==
  /\ Alive
  /\ hpc[h] = "idle"
  /\ CanRead
  /\ readLocks' = readLocks + 1
  /\ hpc' = [hpc EXCEPT ![h] = "holding"]
  /\ \E k \in {"json", "metrics"} :
       /\ hkind' = [hkind EXCEPT ![h] = k]
       /\ hcopy' = [hcopy EXCEPT ![h] =
                      IF k = "metrics" THEN latest_reading ELSE None]
  /\ UNCHANGED << readerPc, term, sharedVars, data, writeLocked, elapsed,
                  response, nonNullJson, exitVars, startupFailed, pollHistory,
                  readsAfterTerm, stopHistory, iterHistory >>

\* the guard is a temporary of the handler's expression: dropped as the
\* handler returns its reply
Release(h) ==
  /\ readLocks' = readLocks - 1
  /\ hpc' = [hpc EXCEPT ![h] = "idle"]
  /\ hkind' = [hkind EXCEPT ![h] = "json"]
  /\ hcopy' = [hcopy EXCEPT ![h] = None]

JsonRespond(h) ==
  /\ Alive
  /\ hpc[h] = "holding"
  /\ hkind[h] = "json"
  /\ response' = reply_json(latest_reading)
  /\ nonNullJson' = (nonNullJson \/ ~response'.null)
  /\ Release(h)
  /\ UNCHANGED << readerPc, term, sharedVars, data, writeLocked, elapsed,
                  exitVars, startupFailed, pollHistory, readsAfterTerm,
                  stopHistory, iterHistory >>

\* a /metrics handler that clears the error counter it has just reported
MetricsRespond_resetting(h) ==
  /\ Alive
  /\ hpc[h] = "holding"
  /\ hkind[h] = "metrics"
  /\ response' = [kind |-> "metrics",
                  lines |-> export_measurement(hcopy[h], error_count,
                                               fatal_error_count)]
  /\ error_count' = 0
  /\ Release(h)
  /\ UNCHANGED << readerPc, term, latest_reading, fatal_error_count, data,
                  writeLocked, elapsed, nonNullJson, exitVars, startupFailed,
                  pollHistory, readsAfterTerm, stopHistory, iterHistory >>

MetricsRespond(h) ==
  /\ Alive
  /\ hpc[h] = "holding"
  /\ hkind[h] = "metrics"
  /\ response' = [kind |-> "metrics",
                  lines |-> export_measurement(hcopy[h], error_count,
                                               fatal_error_count)]
  /\ Release(h)
  /\ UNCHANGED << readerPc, term, sharedVars, data, writeLocked, elapsed,
                  nonNullJson, exitVars, startupFailed, pollHistory,
                  readsAfterTerm, stopHistory, iterHistory >>

(***************************************************************************)
(* The environment.                                                        *)
(***************************************************************************)
\* signal_hook::flag::register(SIGTERM, term): the signal sets the flag
Sigterm ==
  /\ Alive
  /\ ~term
  /\ term' = TRUE
  /\ UNCHANGED << readerPc, sharedVars, data, lockVars, elapsed, handlerVars,
                  exitVars, startupFailed, pollHistory, readsAfterTerm,
                  stopHistory, iterHistory >>

\* Time passes.  The clock is read by Wait alone (last_read.elapsed()), so
\* the time that has passed since last_read is accounted for as the reader
\* reaches that line: a tick at any earlier line of the iteration leaves the
\* same clock there.
Tick ==
  /\ Alive
  /\ readerPc = "wait"
  /\ elapsed < ElapsedCap
  /\ elapsed' = Min(elapsed + TickMs, ElapsedCap)
  /\ UNCHANGED << readerPc, term, sharedVars, data, lockVars, handlerVars,
                  exitVars, startupFailed, pollHistory, readsAfterTerm,
                  stopHistory, iterHistory >>

Next ==
  \/ OpenSerial
  \/ Reset
  \/ Settle
  \/ StartMeasurement
  \/ CheckTerm
  \/ Wait
  \/ ReadOk
  \/ ReadEmpty
  \/ ReadError
  \/ ReadPanics
  \/ WriteLockErr
  \/ WriteLockOk
  \/ Store1
  \/ Store2
  \/ StopMeasurement
  \/ ExitFromReader
  \/ ClosureOnErr
  \/ MainAwait
  \/ \E h \in Handlers : Acquire(h)
  \/ \E h \in Handlers : JsonRespond(h)
  \/ \E h \in Handlers : MetricsRespond(h)
  \/ Sigterm
  \/ Tick

Spec == Init /\ [][Next]_vars

(***************************************************************************)
(* Fairness: a thread that can take a step eventually takes one (the OS    *)
(* schedules the reader thread and the main task; driver calls and sleeps  *)
(* return), and the RwLock does not starve the writer: as long as the      *)
(* process runs the handlers leave the lock free of read guards again and  *)
(* again, and a write() that can succeed again and again eventually does.  *)
(***************************************************************************)
ReaderStep ==
  \/ OpenSerial \/ Reset \/ Settle \/ StartMeasurement
  \/ CheckTerm \/ Wait
  \/ ReadOk \/ ReadEmpty \/ ReadError \/ ReadPanics
  \/ WriteLockErr \/ WriteLockOk \/ Store1 \/ Store2
  \/ StopMeasurement \/ ExitFromReader \/ ClosureOnErr

FairSpec ==
  /\ Spec
  /\ WF_vars(ReaderStep)
  /\ SF_vars(WriteLockOk)
  /\ WF_vars(MainAwait)
  /\ []<>(readLocks = 0 \/ exited)

(***************************************************************************)
(* Claims.                                                                 *)
(***************************************************************************)

\* C1: whenever the startup sequence of the reader (open/configure serial,
\* reset, settle wait, start_measurement) fails, fatalErrorCount has increased
\* by exactly 1 once the failure is handled, the process exits with a non-zero
\* status, and no /json response of the run is non-null.
C1_StartupFailureIsFatal ==
  startupFailed =>
    /\ (readerPc = "returned" => fatal_error_count = 1)
    /\ (exited => exitCode # 0)
    /\ ~nonNullJson

\* C2: if the reader thread ends abnormally (by panicking) the process exits
\* with a non-zero status, and status 0 comes only from the clean shutdown
\* the termination signal asks for.  Stated for the runs whose startup
\* succeeded (a failed startup is the case of C1).
C2_ThreadFailureReachesExitCode ==
  (exited /\ ~startupFailed) =>
    /\ (readerPc = "panicked" => exitCode # 0)
    /\ (exitCode = 0 => (readerPc = "done" /\ term))

FlagObserved == readerPc \in {"stop", "exit", "done"}

C4_NoWriteAfterFlagObserved ==
  [][FlagObserved => (FlagObserved' /\ sharedVars' = sharedVars)]_vars

\* C4 witness: the flag was observed with a reading and an error on record,
\* and stop_measurement has been attempted since.
C4_Witness ==
  /\ readerPc = "exit"
  /\ latest_reading.some
  /\ error_count > 0
  /\ stopAttempts = 1

\* C5: on observing the termination flag the reader attempts
\* stop_measurement exactly once, and the process then exits with status 0
\* whether the attempt succeeded or failed; the attempt changes no counter.
C5_StopIsBestEffort ==
  [][ /\ (readerPc = "stop" /\ readerPc' # "stop") =>
           /\ readerPc' = "exit"
           /\ stopAttempts = 0 /\ stopAttempts' = 1
           /\ error_count' = error_count
           /\ fatal_error_count' = fatal_error_count
      /\ readerPc = "exit" =>
           /\ stopAttempts' = 1
           /\ error_count' = error_count
           /\ fatal_error_count' = fatal_error_count
           /\ (exited' => (exitCode' = 0 /\ readerPc' = "done")) ]_vars

\* C5 witness: stop_measurement failed and the process exited with status 0.
C5_Witness ==
  /\ readerPc = "done"
  /\ stopResult = "Err"
  /\ stopAttempts = 1
  /\ exited /\ exitCode = 0

\* C6: errorCount equals the number of polls that ended in a read error other
\* than "no data yet" plus the number whose write-lock acquisition failed;
\* successful polls and "no data yet" polls leave it unchanged.
C6_ErrorCountCountsErrors ==
  error_count = recoverableCount + lockFailCount

\* C6 witness: three recoverable read errors and a successful poll:
\* errorCount is 3 and latest is present.
C6_Witness ==
  /\ recoverableCount = 3
  /\ lockFailCount = 0
  /\ error_count = 3
  /\ latest_reading.some
  /\ ~writeLocked

\* what latest must hold after the store of series d: the ten values in
\* order, 4 of mass, 5 of number, 1 of particle size
ExpectedLatest(d) ==
  IF d = NoData
    THEN None
    ELSE Some([ mass   |-> [pm1 |-> d[0], pm25 |-> d[1], pm4 |-> d[2],
                            pm10 |-> d[3]],
                number |-> [pm05 |-> d[4], pm1 |-> d[5], pm25 |-> d[6],
                            pm4 |-> d[7], pm10 |-> d[8]],
                typical_particle_size |-> d[9] ])

ExpectedJson(d) ==
  IF d = NoData
    THEN [kind |-> "json", null |-> TRUE, members |-> << >>]
    ELSE [kind |-> "json", null |-> FALSE,
          members |-> << Member("mass", "pm1", d[0]),
                         Member("mass", "pm25", d[1]),
                         Member("mass", "pm4", d[2]),
                         Member("mass", "pm10", d[3]),
                         Member("number", "pm05", d[4]),
                         Member("number", "pm1", d[5]),
                         Member("number", "pm25", d[6]),
                         Member("number", "pm4", d[7]),
                         Member("number", "pm10", d[8]),
                         Member("", "typical_particle_size", d[9]) >>]

JsonResponds(h) ==
  hpc[h] = "holding" /\ hkind[h] = "json" /\ hpc'[h] = "idle"

MetricsResponds(h) ==
  hpc[h] = "holding" /\ hkind[h] = "metrics" /\ hpc'[h] = "idle"

\* C7: latest is absent until the first successful poll and, outside the
\* store itself, is exactly the Measurement of the last poll whose store
\* completed; a /json request returns null before any such poll and the
\* Measurement of the most recent one otherwise.
C7_LatestIsLastSuccessfulPoll ==
  /\ latest_reading = None
  /\ [][ /\ ~writeLocked' => latest_reading' = ExpectedLatest(lastData')
         /\ \A h \in Handlers :
              JsonResponds(h) => response' = ExpectedJson(lastData) ]_vars

\* C7 witness: a /json response that carries the series of sample 2, the
\* last completed store.
C7_Witness ==
  /\ response.kind = "json"
  /\ ~response.null
  /\ lastData = SensorData(2)
  /\ response.members[5] = Member("number", "pm05", SensorData(2)[4])
  /\ ~writeLocked

\* the values of the Measurement a response carries
ResponseValues(r) ==
  IF r.kind = "json"
    THEN {r.members[i].value : i \in 1..Len(r.members)}
    ELSE IF r.kind = "metrics"
      THEN {r.lines[i].value : i \in 1..(Len(r.lines) - 2)}
      ELSE {}

\* all from one poll
SinglePoll(values) ==
  \A x \in values : \A y \in values : SampleOf(x) = SampleOf(y) /\ x # 0

\* C8: no request observes a partially updated Measurement: the ten values
\* of a response all come from one poll, because the write guard and a read
\* guard are never held at the same time.
C8_NoTornRead ==
  /\ SinglePoll(ResponseValues(response))
  /\ ~(writeLocked /\ readLocks > 0)

\* C8 witness: both handlers hold read guards while the reader waits for the
\* write guard with a new series, and a response with a Measurement of
\* another poll has been served.
C8_Witness ==
  /\ readerPc = "lock"
  /\ readLocks = 2
  /\ response.kind = "metrics"
  /\ Len(response.lines) = 12
  /\ data # lastData
  /\ lastData # NoData

LinesNamed(ls, n) == {i \in 1..Len(ls) : ls[i].name = n}

\* C9: every /metrics response ends with the two counter lines; with latest
\* absent they are its only lines, with latest present it also has exactly
\* 4 mass, 5 number and 1 particle-size lines with that Measurement's values.
C9_MetricsLines ==
  [][ \A h \in Handlers : MetricsResponds(h) =>
        LET ls == response'.lines
            n  == Len(ls)
            r  == latest_reading.value
        IN  /\ response'.kind = "metrics"
            /\ n >= 2
            /\ ls[n - 1] = Line("sps30_error_count", error_count, "", "")
            /\ ls[n] = Line("sps30_fatal_error_count", fatal_error_count,
                            "", "")
            /\ Cardinality(LinesNamed(ls, "sps30_error_count")) = 1
            /\ Cardinality(LinesNamed(ls, "sps30_fatal_error_count")) = 1
            /\ IF latest_reading.some
                 THEN /\ n = 12
                      /\ LinesNamed(ls, "sps30_mass_concentration") = 1..4
                      /\ LinesNamed(ls, "sps30_number_concentration") = 5..9
                      /\ LinesNamed(ls, "sps30_typical_particle_size") = {10}
                      /\ << ls[1].value, ls[2].value, ls[3].value,
                            ls[4].value >>
                           = << r.mass.pm1, r.mass.pm25, r.mass.pm4,
                                r.mass.pm10 >>
                      /\ << ls[5].value, ls[6].value, ls[7].value,
                            ls[8].value, ls[9].value >>
                           = << r.number.pm05, r.number.pm1, r.number.pm25,
                                r.number.pm4, r.number.pm10 >>
                      /\ ls[10].value = r.typical_particle_size
                 ELSE n = 2 ]_vars

\* C9 witness: a /metrics response of twelve lines, the ten of the series of
\* sample 1 and the two counters, errorCount being 1.
C9_Witness ==
  /\ response.kind = "metrics"
  /\ Len(response.lines) = 12
  /\ response.lines[1].value = SensorData(1)[0]
  /\ response.lines[11] = Line("sps30_error_count", 1, "", "")
  /\ response.lines[12] = Line("sps30_fatal_error_count", 0, "", "")

C11_HandlersMutateNothing ==
  [][ /\ (\E h \in Handlers : hpc'[h] # hpc[h]) => sharedVars' = sharedVars
      /\ latest_reading' # latest_reading =>
           (readerPc \in {"store1", "store2"} /\ readerPc' # readerPc) ]_vars

\* C11 witness: a /json request has been answered with a Measurement while
\* another request holds its read guard, a reading and a counted error being
\* in the shared state.
C11_Witness ==
  /\ response.kind = "json"
  /\ ~response.null
  /\ latest_reading.some
  /\ error_count = 1
  /\ \E h \in Handlers : hpc[h] = "holding"

\* C12: a read attempt that ends in EmptyResult changes none of latest,
\* errorCount and fatalErrorCount, nor do the termination check and the wait
\* of its iteration; the reader is back at the top of the loop, the process
\* runs on, and with the flag unset the next step is the wait before the next
\* poll.
C12_EmptyResultMutatesNothing ==
  [][ /\ (readerPc = "read" /\ outcome' = "EmptyResult") =>
           /\ sharedVars' = sharedVars
           /\ readerPc' = "check"
           /\ ~exited'
      /\ (readerPc \in {"check", "wait"} /\ readerPc' # readerPc) =>
           sharedVars' = sharedVars
      /\ (readerPc = "check" /\ outcome = "EmptyResult" /\ ~term
            /\ readerPc' # readerPc) => readerPc' = "wait" ]_vars

\* C12 witness: a poll has just ended in EmptyResult, with a reading stored
\* and an error counted by earlier polls.
C12_Witness ==
  /\ outcome = "EmptyResult"
  /\ readerPc = "check"
  /\ latest_reading.some
  /\ error_count = 1

\* C13: when write() fails after a successful read, latest is unchanged, the
\* data of the poll is dropped, errorCount grows by exactly 1, fatalErrorCount
\* is unchanged, the process runs on and the reader is at the top of the loop,
\* from where it goes to the termination check's outcome (wait, or stop if
\* the flag is set); write() is only ever attempted straight after a read.
C13_WriteLockFailureSkipsThePoll ==
  [][ /\ (readerPc = "lock" /\ lockFailCount' # lockFailCount) =>
           /\ latest_reading' = latest_reading
           /\ data' = NoData
           /\ error_count' = error_count + 1
           /\ fatal_error_count' = fatal_error_count
           /\ readerPc' = "check"
           /\ ~exited'
      /\ (readerPc' = "lock" /\ readerPc' # readerPc) => readerPc = "read"
      /\ (readerPc = "check" /\ outcome = "LockErr" /\ readerPc' # readerPc)
           => readerPc' = IF term THEN "stop" ELSE "wait" ]_vars

\* C13 witness: after a failed write() the reader is at its next read attempt,
\* latest still holding the Measurement of an earlier poll.
C13_Witness ==
  /\ lockFailCount = 1
  /\ error_count = 1
  /\ readerPc = "read"
  /\ latest_reading.some
  /\ latest_reading = ExpectedLatest(lastData)

StartupOrder == << "open", "reset", "settle", "start" >>

IsPrefix(s, t) == Len(s) <= Len(t) /\ \A i \in 1..Len(s) : s[i] = t[i]

StartupInv ==
  /\ IsPrefix(startupLog, StartupOrder)
  /\ everRead => (startupLog = StartupOrder /\ ~startupFailed)
  /\ startupFailed =>
       /\ ~everRead
       /\ latest_reading = None
       /\ readerPc \in {"failed", "returned"}

\* C14: the startup steps are issued in the order open, reset, settle wait,
\* start_measurement, each at most once; a read attempt is issued only after
\* all of them succeeded; once a step has failed no startup step and no read
\* attempt is issued any more, and latest stays absent.
C14_StartupInOrderNoRetry ==
  /\ StartupInv
  /\ [][ /\ StartupInv'
         /\ startupFailed =>
              (startupLog' = startupLog /\ everRead' = everRead) ]_vars

\* C14 witness: the reset failed and the process has exited; neither the
\* settle wait nor start_measurement was issued.
C14_Witness ==
  /\ startupFailed
  /\ startupLog = << "open", "reset" >>
  /\ exited

PollInv ==
  /\ readerPc = "read" => elapsed >= READ_INTERVAL
  /\ readerPc \in {"wait", "read"} => outcome = "none"
  /\ (readerPc = "check" /\ everRead) =>
       outcome \in {"Ok", "EmptyResult", "Error", "LockErr"}

\* C15: a read attempt starts only when at least READ_INTERVAL has passed
\* since last_read, which is the start of the previous attempt or, for the
\* first one, the return of start_measurement; the wait sleeps for the rest
\* of the interval and not at all when it is over; an iteration issues its
\* read attempt once: none has been made when it starts, one has been made
\* when the reader is back at the top of the loop.
C15_OneReadPerInterval ==
  /\ PollInv
  /\ [][ /\ PollInv'
         /\ (readerPc = "wait" /\ readerPc' = "read") =>
              elapsed' = IF elapsed >= READ_INTERVAL THEN elapsed
                                                      ELSE READ_INTERVAL
         /\ (readerPc = "read" /\ readerPc' # readerPc) =>
              (outcome = "none" /\ outcome' # "none" /\ elapsed' = 0) ]_vars

\* C15 witness: a second or later read attempt is about to start without
\* any sleep, more than READ_INTERVAL having passed since the previous one.
C15_Witness ==
  /\ readerPc = "read"
  /\ everRead
  /\ elapsed > READ_INTERVAL

\* the lines at which the reader thread blocks: serial I/O of the driver,
\* thread::sleep(STARTUP_DURATION), thread::sleep(sleep_duration)
Blocked ==
  readerPc \in {"open", "reset", "settle", "start", "wait", "read", "stop"}

\* C16: the write guard exists only during the store; while the reader is at
\* a blocking line and the process runs, every idle handler can take its read
\* guard and every handler that holds one can reply.
C16_NoLockWhileBlocked ==
  /\ writeLocked => readerPc \in {"store1", "store2"}
  /\ (Alive /\ Blocked) =>
       \A h \in Handlers :
         /\ hpc[h] = "idle" => ENABLED Acquire(h)
         /\ hpc[h] = "holding" => ENABLED (JsonRespond(h) \/ MetricsRespond(h))

\* C16 witness: the reader is in a read attempt after a completed store while
\* every handler holds a read guard.
C16_Witness ==
  /\ readerPc = "read"
  /\ latest_reading.some
  /\ readLocks = NumHandlers

\* the body of `loop { ... }`
InLoop == readerPc \in {"check", "wait", "read", "lock", "store1", "store2"}

\* C17: while the reader is in the loop the process has not exited; a read
\* attempt that returns an error or EmptyResult, and a failed write(), put
\* the reader back at the top of the loop; the reader leaves the loop by
\* its own control flow only at the termination check with the flag set
\* (unwinding from a panic of the driver is not a return of the read).
C17_ErrorsNeverEndTheLoop ==
  /\ InLoop => ~exited
  /\ [][ /\ InLoop' => ~exited'
         /\ (InLoop /\ ~InLoop' /\ outcome' # "Panic") =>
              (readerPc = "check" /\ term /\ readerPc' = "stop")
         /\ (InLoop /\ outcome' # outcome
               /\ outcome' \in {"Error", "EmptyResult", "LockErr"}) =>
              readerPc' = "check" ]_vars

\* C17 witness: the flag is unset and the reader is still in the loop after
\* two recoverable read errors, a failed write() and an EmptyResult.
C17_Witness ==
  /\ InLoop
  /\ ~term
  /\ recoverableCount = 2
  /\ lockFailCount = 1
  /\ outcome = "EmptyResult"

\* C18: fatalErrorCount is 0 or 1; it is 0 whenever latest is present or the
\* reader is in its loop; a /metrics response that has measurement lines
\* reports a fatal error count of 0.
C18_FatalCountIsStartupOnly ==
  /\ fatal_error_count <= 1
  /\ (latest_reading.some \/ InLoop) => fatal_error_count = 0
  /\ (response.kind = "metrics" /\ Len(response.lines) > 2) =>
       response.lines[Len(response.lines)].value = 0

\* C18 witness: after a failed startup a /metrics response consists of the
\* two counter lines, the fatal error count being 1.
C18_Witness ==
  /\ fatal_error_count = 1
  /\ response.kind = "metrics"
  /\ response.lines = CounterLines(0, 1)

ShutdownWithoutPoll ==
  /\ (readerPc \in {"stop", "exit", "done"} /\ ~everRead) =>
       /\ latest_reading = None
       /\ error_count = 0
       /\ fatal_error_count = 0
  /\ readerPc = "done" => (exited /\ exitCode = 0)

\* C19: when the first termination check finds the flag set the reader goes
\* to stop_measurement without a read attempt, and none is issued afterwards;
\* from there on latest is absent and both counters are 0, and the reader's
\* exit is an exit of the process with status 0.
C19_FlagSetBeforeFirstPoll ==
  /\ ShutdownWithoutPoll
  /\ [][ /\ ShutdownWithoutPoll'
         /\ (readerPc = "check" /\ term /\ ~everRead /\ readerPc' # readerPc)
              => readerPc' = "stop"
         /\ readerPc \in {"stop", "exit", "done"} =>
              everRead' = everRead ]_vars

\* C19 witness: the process has exited with status 0 from the reader thread,
\* the startup having succeeded and no read attempt having been made.
C19_Witness ==
  /\ readerPc = "done"
  /\ exited
  /\ exitCode = 0
  /\ term
  /\ ~everRead
  /\ ~startupFailed
  /\ latest_reading = None

====
